---- MODULE Spec2Model ----
(***************************************************************************)
(* A model of scripts/gen_tz_table.py: the generator that reduces the IANA *)
(* tzdb Zone and Rule lines to the table of tz_table.c.                    *)
(*                                                                         *)
(* Text is modelled as text: a line, a field and a token are TLA+ strings, *)
(* read with Len, SubSeq and \o, and every Python string method the script *)
(* calls (strip, split, startswith, int, re.match) is an operator that     *)
(* computes what the method computes.  A call that may raise returns a     *)
(* record [raised, value]; None is the empty string where the script holds *)
(* an Optional[str] (a field produced by split() is never empty, and the   *)
(* script only tests these values for truth), and the empty sequence where *)
(* it holds an Optional[DSTRule].                                          *)
(***************************************************************************)
EXTENDS Integers, Sequences, FiniteSets, Bags, TLC

(***************************************************************************)
(* Python str and int primitives                                           *)
(***************************************************************************)

Char(s, i) == SubSeq(s, i, i)

\* s[i-1:j] of Python: the characters at positions i..j, as far as s has them.
Slice(s, i, j) ==
  LET last == IF j < Len(s) THEN j ELSE Len(s)
  IN IF i > last THEN "" ELSE SubSeq(s, i, last)

\* The printable ASCII characters in code-point order: 32 (space) to 95, and
\* 97 to 126.
AsciiLow ==
  " !\"#$%&'()*+,-./0123456789:;<=>?@ABCDEFGHIJKLMNOPQRSTUVWXYZ[\\]^_"

AsciiHigh == "abcdefghijklmnopqrstuvwxyz{|}~"

\* ord(c) for every character of the tables above (tab is 9).
OrdTable ==
  [c \in {Char(AsciiLow, i) : i \in 1..Len(AsciiLow)}
          \cup {Char(AsciiHigh, i) : i \in 1..Len(AsciiHigh)} \cup {"\t"} |->
     IF c = "\t" THEN 9
     ELSE IF \E i \in 1..Len(AsciiLow) : Char(AsciiLow, i) = c
          THEN 31 + (CHOOSE i \in 1..Len(AsciiLow) : Char(AsciiLow, i) = c)
          ELSE 96 + (CHOOSE i \in 1..Len(AsciiHigh) : Char(AsciiHigh, i) = c)]

Ord(c) == OrdTable[c]

Digits == {"0", "1", "2", "3", "4", "5", "6", "7", "8", "9"}

IsDigit(c) == c \in Digits

DigitVal(c) == Ord(c) - 48

\* \w of the re module, on ASCII text.
WordChars ==
  Digits \cup {"_"}
    \cup {Char(AsciiLow, i) : i \in 34..59} \cup {Char(AsciiHigh, i) : i \in 1..26}

IsWordChar(c) == c \in WordChars

\* str.isspace() of one character.
IsSpace(c) == c \in {" ", "\t", "\n", "\r"}

\* s.startswith(p)
StartsWith(s, p) == Len(s) >= Len(p) /\ SubSeq(s, 1, Len(p)) = p

\* s.index(c) counted from 1, or 0 when c is not in s.
RECURSIVE FindFrom(_, _, _)
FindFrom(s, c, i) ==
  IF i > Len(s) THEN 0
  ELSE IF Char(s, i) = c THEN i
  ELSE FindFrom(s, c, i + 1)

Find(s, c) == FindFrom(s, c, 1)

\* c in s
Contains(s, c) == Find(s, c) > 0

\* s.lstrip()
RECURSIVE LStrip(_)
LStrip(s) ==
  IF Len(s) > 0 /\ IsSpace(Char(s, 1)) THEN LStrip(SubSeq(s, 2, Len(s))) ELSE s

\* s.rstrip()
RECURSIVE RStrip(_)
RStrip(s) ==
  IF Len(s) > 0 /\ IsSpace(Char(s, Len(s))) THEN RStrip(SubSeq(s, 1, Len(s) - 1)) ELSE s

\* s.strip()
Strip(s) == LStrip(RStrip(s))

\* s.rstrip(chars)
RECURSIVE RStripChars(_, _)
RStripChars(s, chars) ==
  IF Len(s) > 0 /\ Char(s, Len(s)) \in chars
  THEN RStripChars(SubSeq(s, 1, Len(s) - 1), chars)
  ELSE s

\* Whether character c is of a kind: 0 = space, 1 = not space, 2 = \w, 3 = \d.
IsKind(c, kind) ==
  CASE kind = 0 -> IsSpace(c)
    [] kind = 1 -> ~IsSpace(c)
    [] kind = 2 -> IsWordChar(c)
    [] OTHER    -> IsDigit(c)

\* The length of the longest run of characters of one kind in s from position i.
RECURSIVE Run(_, _, _)
Run(s, i, kind) ==
  IF i > Len(s) THEN 0
  ELSE IF IsKind(Char(s, i), kind) THEN 1 + Run(s, i + 1, kind)
  ELSE 0

\* s.split(): the maximal runs of non-whitespace characters, in order.
\* SplitFrom skips the whitespace at position i, SplitField measures the field
\* that starts at j, SplitRest takes its n characters and goes on.
RECURSIVE SplitFrom(_, _)
RECURSIVE SplitField(_, _)
SplitRest(s, j, n) ==
  IF n = 0 THEN <<>>
  ELSE <<SubSeq(s, j, j + n - 1)>> \o SplitFrom(s, j + n)

SplitField(s, j) == SplitRest(s, j, Run(s, j, 1))

SplitFrom(s, i) == SplitField(s, i + Run(s, i, 0))

Split(s) == SplitFrom(s, 1)

\* s.split(sep) for a one-character separator: empty pieces are kept.  k is
\* the position of the first separator, 0 when there is none.
RECURSIVE SplitOn(_, _)
SplitAt(s, sep, k) ==
  IF k = 0 THEN <<s>>
  ELSE <<SubSeq(s, 1, k - 1)>> \o SplitOn(SubSeq(s, k + 1, Len(s)), sep)

SplitOn(s, sep) == SplitAt(s, sep, Find(s, sep))

\* s.replace(old, new) for a one-character old.
RECURSIVE Replace(_, _, _)
Replace(s, old, new) ==
  IF Len(s) = 0 THEN ""
  ELSE (IF Char(s, 1) = old THEN new ELSE Char(s, 1))
         \o Replace(SubSeq(s, 2, Len(s)), old, new)

\* a < b for str: code-point lexicographic order.
RECURSIVE StrLess(_, _)
StrLess(a, b) ==
  IF Len(b) = 0 THEN FALSE
  ELSE IF Len(a) = 0 THEN TRUE
  ELSE IF Char(a, 1) = Char(b, 1)
       THEN StrLess(SubSeq(a, 2, Len(a)), SubSeq(b, 2, Len(b)))
       ELSE Ord(Char(a, 1)) < Ord(Char(b, 1))

Ok(v) == [raised |-> FALSE, value |-> v]

\* An uncaught ValueError.
Raise == [raised |-> TRUE, value |-> 0]

\* The digits of an int() literal after its sign: groups of digits joined by
\* single underscores.
RECURSIVE IsDigitPart(_, _)
IsDigitPart(s, prevDigit) ==
  IF Len(s) = 0 THEN prevDigit
  ELSE IF IsDigit(Char(s, 1)) THEN IsDigitPart(SubSeq(s, 2, Len(s)), TRUE)
  ELSE IF Char(s, 1) = "_" THEN prevDigit /\ IsDigitPart(SubSeq(s, 2, Len(s)), FALSE)
  ELSE FALSE

RECURSIVE DigitsValue(_, _)
DigitsValue(s, acc) ==
  IF Len(s) = 0 THEN acc
  ELSE IF Char(s, 1) = "_" THEN DigitsValue(SubSeq(s, 2, Len(s)), acc)
  ELSE DigitsValue(SubSeq(s, 2, Len(s)), 10 * acc + DigitVal(Char(s, 1)))

\* int() of a literal without its sign, negated when minus is set.
PyIntBody(body, minus) ==
  IF ~IsDigitPart(body, FALSE) THEN Raise
  ELSE IF minus THEN Ok(0 - DigitsValue(body, 0))
  ELSE Ok(DigitsValue(body, 0))

\* int(s): an optional sign, then decimal digits; ValueError otherwise.
PyInt(s) ==
  IF Len(s) > 0 /\ Char(s, 1) \in {"+", "-"}
  THEN PyIntBody(SubSeq(s, 2, Len(s)), Char(s, 1) = "-")
  ELSE PyIntBody(s, FALSE)

(***************************************************************************)
(* The script's tables                                                     *)
(***************************************************************************)

TZDB_FILES ==
  <<"africa", "antarctica", "asia", "australasia", "europe", "northamerica",
    "southamerica", "etcetera">>

MonthNames ==
  <<"Jan", "Feb", "Mar", "Apr", "May", "Jun", "Jul", "Aug", "Sep", "Oct", "Nov", "Dec">>

\* MONTHS.get(s, default)
MONTHS(s, default) ==
  IF \E i \in 1..12 : MonthNames[i] = s
  THEN CHOOSE i \in 1..12 : MonthNames[i] = s
  ELSE default

DayNames == <<"Sun", "Mon", "Tue", "Wed", "Thu", "Fri", "Sat">>

\* DAYS.get(s, default)
DAYS(s, default) ==
  IF \E i \in 1..7 : DayNames[i] = s
  THEN (CHOOSE i \in 1..7 : DayNames[i] = s) - 1
  ELSE default

(***************************************************************************)
(* Primitive field parsers                                                 *)
(***************************************************************************)

\* OffsetTotal with the seconds dropped instead of rounded.
OffsetTotal_truncating(negative, hours, minutes, seconds) ==
  IF hours.raised \/ minutes.raised \/ seconds.raised THEN Raise
  ELSE IF negative THEN Ok(0 - (hours.value * 60 + minutes.value))
  ELSE Ok(hours.value * 60 + minutes.value)

\* parse_offset, lines 120-123: the total of the parsed parts, signed.
OffsetTotal(negative, hours, minutes, seconds) ==
  IF hours.raised \/ minutes.raised \/ seconds.raised THEN Raise
  ELSE IF negative
  THEN Ok(0 - (hours.value * 60 + minutes.value + (IF seconds.value >= 30 THEN 1 ELSE 0)))
  ELSE Ok(hours.value * 60 + minutes.value + (IF seconds.value >= 30 THEN 1 ELSE 0))

\* parse_offset, lines 115-118: the parts of the unsigned text.
OffsetOfParts(negative, parts) ==
  OffsetTotal(negative,
              PyInt(parts[1]),
              IF Len(parts) > 1 THEN PyInt(parts[2]) ELSE Ok(0),
              IF Len(parts) > 2 THEN PyInt(parts[3]) ELSE Ok(0))

\* parse_offset(offset_str): signed minutes, or ValueError from int().
parse_offset(offset_str) ==
  IF offset_str = "-" \/ offset_str = "0" THEN Ok(0)
  ELSE IF StartsWith(offset_str, "-")
  THEN OffsetOfParts(TRUE, SplitOn(SubSeq(offset_str, 2, Len(offset_str)), ":"))
  ELSE OffsetOfParts(FALSE, SplitOn(offset_str, ":"))

\* parse_time reading the last colon-separated part instead of the first.
parse_time_last_part(time_str) ==
  PyInt(SplitOn(RStripChars(time_str, {"u", "s", "w"}), ":")
          [Len(SplitOn(RStripChars(time_str, {"u", "s", "w"}), ":"))])

\* parse_time(time_str): the hour, or ValueError from int().
parse_time(time_str) ==
  PyInt(SplitOn(RStripChars(time_str, {"u", "s", "w"}), ":")[1])

\* parse_on_field, lines 175-183: the token as a day number, or the default.
OnFieldOfInt(n) ==
  IF ~n.raised THEN <<((n.value - 1) \div 7) + 1, 0>> ELSE <<1, 0>>

\* OnFieldMatch with the pattern matched against the whole token (fullmatch).
OnFieldMatch_whole_token(on_str, w, d) ==
  IF w >= 1 /\ Slice(on_str, w + 1, w + 2) = ">=" /\ d >= 1 /\ w + 2 + d = Len(on_str)
  THEN <<((DigitsValue(SubSeq(on_str, w + 3, w + 2 + d), 0) - 1) \div 7) + 1,
         DAYS(SubSeq(on_str, 1, w), 0)>>
  ELSE OnFieldOfInt(PyInt(on_str))

\* parse_on_field, lines 162-183: w is the length of the \w+ the token starts
\* with, d the length of the \d+ after its >=; re.match anchors the pattern
\* (\w+)>=(\d+) at the start of the token only.
OnFieldMatch(on_str, w, d) ==
  IF w >= 1 /\ Slice(on_str, w + 1, w + 2) = ">=" /\ d >= 1
  THEN <<((DigitsValue(SubSeq(on_str, w + 3, w + 2 + d), 0) - 1) \div 7) + 1,
         DAYS(SubSeq(on_str, 1, w), 0)>>
  ELSE OnFieldOfInt(PyInt(on_str))

\* The \d+ is looked for after the two characters that follow the \w+.
OnFieldWord(on_str, w) == OnFieldMatch(on_str, w, Run(on_str, w + 3, 3))

\* parse_on_field(on_str): the pair <<week, dow>>.
parse_on_field(on_str) ==
  IF StartsWith(on_str, "last")
  THEN <<5, DAYS(SubSeq(on_str, 5, Len(on_str)), 0)>>
  ELSE OnFieldWord(on_str, Run(on_str, 1, 2))

\* parse_save_field(save_str)
parse_save_field(save_str) ==
  IF save_str = "0" \/ save_str = "-" THEN Ok(0) ELSE parse_offset(save_str)

(***************************************************************************)
(* Rule table builder                                                      *)
(***************************************************************************)

DSTRule(month, week, dow, hour, offset_mins) ==
  [month |-> month, week |-> week, dow |-> dow, hour |-> hour,
   offset_mins |-> offset_mins]

\* The comment removal both scans start with: line[:line.index('#')].
RemoveComment(line) ==
  IF Contains(line, "#") THEN SubSeq(line, 1, Find(line, "#") - 1) ELSE line

NoRuleRead == [skip |-> TRUE, raised |-> FALSE, name |-> "", tuple |-> <<>>]

\* parse_rules, lines 250-266: the tuple appended to the named rule set.
RuleOfFields(name, from_yr, to_yr, month, on, hour, offset_mins) ==
  IF from_yr.raised \/ to_yr.raised \/ hour.raised \/ offset_mins.raised
  THEN [NoRuleRead EXCEPT !.skip = FALSE, !.raised = TRUE]
  ELSE [skip |-> FALSE, raised |-> FALSE, name |-> name,
        tuple |-> <<from_yr.value, to_yr.value,
                    DSTRule(month, on[1], on[2], hour.value, offset_mins.value)>>]

\* parse_rules, lines 236-241: the FROM year.
FromYear(from_year) ==
  IF from_year = "min" THEN Ok(1900)
  ELSE IF from_year = "max" THEN Ok(9999)
  ELSE PyInt(from_year)

\* parse_rules, lines 243-248: the TO year.
ToYear(to_year, from_yr) ==
  IF to_year = "only" THEN from_yr
  ELSE IF to_year = "max" THEN Ok(9999)
  ELSE PyInt(to_year)

\* parse_rules, lines 221-262: the fields of a Rule line,
\* Rule NAME FROM TO - IN ON AT SAVE LETTER.
RuleOfParts(parts) ==
  IF Len(parts) < 10 THEN NoRuleRead
  ELSE RuleOfFields(parts[2], FromYear(parts[3]), ToYear(parts[4], FromYear(parts[3])),
                    MONTHS(parts[6], 1), parse_on_field(parts[7]),
                    parse_time(parts[8]), parse_save_field(parts[9]))

RuleOfText(line) ==
  IF ~StartsWith(line, "Rule") THEN NoRuleRead ELSE RuleOfParts(Split(line))

\* What parse_rules reads from one line of a file, lines 213-262: skip is set
\* for a line the loop passes over, raised for one whose parsing raises
\* ValueError; otherwise the rule-set name and the tuple it appends.
ReadRuleLine(rawline) == RuleOfText(Strip(RemoveComment(rawline)))

\* The lines of a checked directory: well-formed rules and zones.
LinePool ==
  { "Rule US 2007 max - Mar Sun>=8 2:00 1:00 D",
    "Rule US 2007 max - Nov Sun>=1 2:00 0 S",
    "Zone America/Denver -7:00 US M%sT",
    "Zone Africa/Lagos 0:13:35 - LMT 1905 Jul",
    "\t\t\t1:00\tUS\tWAT",
    "Zone Etc/UTC 0 - UTC",
    "Zone EST -5:00 - EST" }

\* The lines of a checked directory: what the zone scan tells apart.
ScanPool ==
  { "Zone America/Denver -7:00 US M%sT",
    "Zone Africa/Lagos 0:13:35 - LMT 1905 Jul",
    "\t\t\t-8:00\tUS\tP%sT",
    "\t\t\t1:00\t-\tWAT",
    "\t\t\t9:00",
    "Zone",
    "Link America/Denver America/Shiprock",
    "Rule US 2007 max - Mar Sun>=8 2:00 1:00 D",
    "\t# a note",
    "" }

\* The lines of a checked directory: malformed and unusual tzdb text.
AnomalyPool ==
  { "Rule US 2007 max - Mar Sun>=36 2:00 1:00 D",
    "Rule US 2007 max - Nov Sol 2:00 0 S",
    "Rule US 2007 max",
    "Rule US 2007 max - Mar lastSun 2:00 1:0O D",
    "Rule US 2007 max - Mar lastSun noon 1:00 D",
    "Rule US 2OO7 max - Nov lastSun 2:00 0 S",
    "Zone America/Denver -7:00 US M%sT",
    "Zone Asia/Kolkata 5:3O - IST",
    "Zone",
    "\t\t\t-8:0O\tUS\tP%sT" }

AllLines == LinePool \cup ScanPool \cup AnomalyPool

\* ReadRuleLine of every line a checked directory may hold, computed once.
RuleLineTable == [l \in AllLines |-> ReadRuleLine(l)]

\* AddRule passing over a line whose fields int() rejects.
AddRule_skipping_bad(rules, read) ==
  IF read.raised \/ read.skip THEN [raised |-> FALSE, rules |-> rules]
  ELSE [raised |-> FALSE,
        rules  |-> [n \in DOMAIN rules \cup {read.name} |->
                      IF n # read.name THEN rules[n]
                      ELSE IF n \in DOMAIN rules THEN Append(rules[n], read.tuple)
                      ELSE <<read.tuple>>]]

\* parse_rules, lines 264-266: the rule table with what was read added.  The
\* table maps a rule-set name to RuleSet.rules, the list of
\* <<from_year, to_year, rule>>.
AddRule(rules, read) ==
  IF read.raised THEN [raised |-> TRUE, rules |-> rules]
  ELSE IF read.skip THEN [raised |-> FALSE, rules |-> rules]
  ELSE [raised |-> FALSE,
        rules  |-> [n \in DOMAIN rules \cup {read.name} |->
                      IF n # read.name THEN rules[n]
                      ELSE IF n \in DOMAIN rules THEN Append(rules[n], read.tuple)
                      ELSE <<read.tuple>>]]

\* The body of parse_rules' loop for one line of a file: the rule table after
\* the line, or ValueError.
ParseRuleLine(rules, rawline) == AddRule(rules, RuleLineTable[rawline])

(***************************************************************************)
(* Current-rule selector and entry assembler                               *)
(***************************************************************************)

\* One iteration of get_current_rules' loop: before is the pair
\* <<start_rule, end_rule>> so far, each <<>> (None) or <<rule>>.
CurrentRulesStep(before, from_yr, to_yr, rule, current_year) ==
  IF to_yr >= current_year /\ from_yr <= current_year
  THEN IF rule.offset_mins > 0 THEN <<<<rule>>, before[2]>>
       ELSE <<before[1], <<rule>>>>
  ELSE before

\* The loop of get_current_rules over ruleset.rules[1..n].
RECURSIVE CurrentRulesUpTo(_, _, _)
CurrentRulesUpTo(ruleset, current_year, n) ==
  IF n = 0 THEN <<<<>>, <<>>>>
  ELSE CurrentRulesStep(CurrentRulesUpTo(ruleset, current_year, n - 1),
                        ruleset[n][1], ruleset[n][2], ruleset[n][3], current_year)

\* get_current_rules(ruleset), with date.today().year passed in.
get_current_rules(ruleset, current_year) ==
  CurrentRulesUpTo(ruleset, current_year, Len(ruleset))

TZEntry(name, region, city, std_offset_mins) ==
  [name |-> name, region |-> region, city |-> city,
   std_offset_mins |-> std_offset_mins, dst_offset_mins |-> 0,
   dst_start_month |-> 0, dst_start_week |-> 0, dst_start_dow |-> 0,
   dst_start_hour |-> 0, dst_end_month |-> 0, dst_end_week |-> 0,
   dst_end_dow |-> 0, dst_end_hour |-> 0]

\* WithRules filling each side of the descriptor from whichever rule exists.
WithRules_either(entry, start_rule, end_rule) ==
  [entry EXCEPT
     !.dst_offset_mins = IF start_rule # <<>> THEN start_rule[1].offset_mins ELSE 0,
     !.dst_start_month = IF start_rule # <<>> THEN start_rule[1].month ELSE 0,
     !.dst_start_week  = IF start_rule # <<>> THEN start_rule[1].week ELSE 0,
     !.dst_start_dow   = IF start_rule # <<>> THEN start_rule[1].dow ELSE 0,
     !.dst_start_hour  = IF start_rule # <<>> THEN start_rule[1].hour ELSE 0,
     !.dst_end_month   = IF end_rule # <<>> THEN end_rule[1].month ELSE 0,
     !.dst_end_week    = IF end_rule # <<>> THEN end_rule[1].week ELSE 0,
     !.dst_end_dow     = IF end_rule # <<>> THEN end_rule[1].dow ELSE 0,
     !.dst_end_hour    = IF end_rule # <<>> THEN end_rule[1].hour ELSE 0]

\* create_tz_entry, lines 384-393: the entry with the DST fields of the pair.
WithRules(entry, start_rule, end_rule) ==
  IF start_rule # <<>> /\ end_rule # <<>>
  THEN [entry EXCEPT
          !.dst_offset_mins = start_rule[1].offset_mins,
          !.dst_start_month = start_rule[1].month,
          !.dst_start_week  = start_rule[1].week,
          !.dst_start_dow   = start_rule[1].dow,
          !.dst_start_hour  = start_rule[1].hour,
          !.dst_end_month   = end_rule[1].month,
          !.dst_end_week    = end_rule[1].week,
          !.dst_end_dow     = end_rule[1].dow,
          !.dst_end_hour    = end_rule[1].hour]
  ELSE entry

\* create_tz_entry, lines 364-377: region and city from the first '/'.
NewEntry(zone_name, std_offset, slash) ==
  IF slash > 0
  THEN TZEntry(zone_name, SubSeq(zone_name, 1, slash - 1),
               SubSeq(zone_name, slash + 1, Len(zone_name)), std_offset)
  ELSE TZEntry(zone_name, zone_name, zone_name, std_offset)

\* LookUpRules filling the start descriptor as soon as a start rule exists.
LookUpRules_start_only(entry, rule_name, rules, current_year) ==
  IF rule_name # "" /\ rule_name \in DOMAIN rules
       /\ get_current_rules(rules[rule_name], current_year)[1] # <<>>
  THEN [entry EXCEPT
          !.dst_offset_mins = get_current_rules(rules[rule_name], current_year)[1][1].offset_mins,
          !.dst_start_month = get_current_rules(rules[rule_name], current_year)[1][1].month,
          !.dst_start_week  = get_current_rules(rules[rule_name], current_year)[1][1].week,
          !.dst_start_dow   = get_current_rules(rules[rule_name], current_year)[1][1].dow,
          !.dst_start_hour  = get_current_rules(rules[rule_name], current_year)[1][1].hour]
  ELSE entry

\* create_tz_entry, lines 379-395: the rule lookup.
LookUpRules(entry, rule_name, rules, current_year) ==
  IF rule_name # "" /\ rule_name \in DOMAIN rules
  THEN WithRules(entry, get_current_rules(rules[rule_name], current_year)[1],
                        get_current_rules(rules[rule_name], current_year)[2])
  ELSE entry

\* create_tz_entry(zone_name, std_offset, rule_name, rules)
create_tz_entry(zone_name, std_offset, rule_name, rules, current_year) ==
  LookUpRules(NewEntry(zone_name, std_offset, Find(zone_name, "/")),
              rule_name, rules, current_year)

(***************************************************************************)
(* Zone table builder and table emitter                                    *)
(***************************************************************************)

NoZoneRead == [kind |-> "other", name |-> "", offset |-> Ok(0), rule_name |-> ""]

\* parse_zones, lines 319-349, on the line without its comment and trailing
\* whitespace, and its fields.
ZoneOfParts(line, parts) ==
  IF StartsWith(line, "Zone")
  THEN IF Len(parts) < 3 THEN [NoZoneRead EXCEPT !.kind = "short_zone"]
       ELSE [kind |-> "zone", name |-> parts[2], offset |-> parse_offset(parts[3]),
             rule_name |-> IF Len(parts) > 3 /\ parts[4] # "-" THEN parts[4] ELSE ""]
  ELSE IF StartsWith(line, "\t") \/ StartsWith(line, " ")
  THEN IF Len(parts) >= 2
       THEN [kind |-> "indented", name |-> "", offset |-> parse_offset(parts[1]),
             rule_name |-> IF Len(parts) > 1 /\ parts[2] # "-" THEN parts[2] ELSE ""]
       ELSE [NoZoneRead EXCEPT !.kind = "short_indented"]
  ELSE NoZoneRead

ZoneOfText(line) ==
  IF Strip(line) = "" THEN [NoZoneRead EXCEPT !.kind = "blank"]
  ELSE ZoneOfParts(line, Split(line))

\* What parse_zones reads from one line of a file, lines 310-349: the kind of
\* line ("blank", "zone", "short_zone" for a Zone line of fewer than three
\* fields, "indented", "short_indented" for an indented line of fewer than two
\* fields, "other"), and for a zone or an indented line the zone name, the
\* parsed offset (or ValueError) and the rule reference (or None).  An
\* indented line is read as a continuation only while a zone is active.
ReadZoneLine(rawline) == ZoneOfText(RStrip(RemoveComment(rawline)))

\* ReadZoneLine of every line a checked directory may hold, computed once.
ZoneLineTable == [l \in AllLines |-> ReadZoneLine(l)]

\* parse_zones, lines 321-324 and 352-355: the active zone, if any, is saved.
\* scan is the scan state [zones, current_zone, current_offset,
\* current_rule_name, calls, raised]; calls records the arguments of every
\* create_tz_entry call, in order.
SaveZone(scan, rules, current_year) ==
  IF scan.current_zone # ""
  THEN [scan EXCEPT
          !.zones = Append(@, create_tz_entry(scan.current_zone, scan.current_offset,
                                scan.current_rule_name, rules, current_year)),
          !.calls = Append(@, [zone_name |-> scan.current_zone,
                               std_offset |-> scan.current_offset,
                               rule_name |-> scan.current_rule_name])]
  ELSE scan

\* ScanStep in which a Zone line of fewer than three fields is passed over.
ScanStep_short_zone_ignored(scan, read, rules, current_year) ==
  CASE read.kind = "zone" ->
         IF read.offset.raised THEN [scan EXCEPT !.raised = TRUE]
         ELSE [SaveZone(scan, rules, current_year) EXCEPT
                 !.current_zone = read.name,
                 !.current_offset = read.offset.value,
                 !.current_rule_name = read.rule_name]
    [] read.kind = "indented" /\ scan.current_zone # "" ->
         IF read.offset.raised THEN [scan EXCEPT !.raised = TRUE]
         ELSE [scan EXCEPT !.current_offset = read.offset.value,
                           !.current_rule_name = read.rule_name]
    [] OTHER -> scan

\* parse_zones, lines 319-349: what the scan does with what it read.
ScanStep(scan, read, rules, current_year) ==
  CASE read.kind = "short_zone" ->
         [SaveZone(scan, rules, current_year) EXCEPT !.current_zone = ""]
    [] read.kind = "zone" ->
         IF read.offset.raised THEN [scan EXCEPT !.raised = TRUE]
         ELSE [SaveZone(scan, rules, current_year) EXCEPT
                 !.current_zone = read.name,
                 !.current_offset = read.offset.value,
                 !.current_rule_name = read.rule_name]
    [] read.kind = "indented" /\ scan.current_zone # "" ->
         IF read.offset.raised THEN [scan EXCEPT !.raised = TRUE]
         ELSE [scan EXCEPT !.current_offset = read.offset.value,
                           !.current_rule_name = read.rule_name]
    [] OTHER -> scan

\* The body of parse_zones' loop for one line of a file: the scan state after
\* the line, with raised set on ValueError.
ParseZoneLine(scan, rawline, rules, current_year) ==
  ScanStep(scan, ZoneLineTable[rawline], rules, current_year)

\* KeepZone without the test for the Etc/ prefix.
KeepZone_any_slash(z) == Contains(z.name, "/")

\* The test of main's list comprehension.
KeepZone(z) == Contains(z.name, "/") /\ ~StartsWith(z.name, "Etc/")

\* zones.sort(key=lambda z: z.name): a stable sort by name.
RECURSIVE InsertByName(_, _)
InsertByName(sorted, z) ==
  IF sorted = <<>> THEN <<z>>
  ELSE IF StrLess(z.name, sorted[Len(sorted)].name)
       THEN Append(InsertByName(SubSeq(sorted, 1, Len(sorted) - 1), z),
                   sorted[Len(sorted)])
       ELSE Append(sorted, z)

RECURSIVE SortByName(_)
SortByName(zones) ==
  IF zones = <<>> THEN <<>>
  ELSE InsertByName(SortByName(SubSeq(zones, 1, Len(zones) - 1)), zones[Len(zones)])

\* The escaping generate_c_output applies to name, region and city.
Escape(str) == Replace(Replace(str, "\\", "\\\\"), "\"", "\\\"")

\* One record of tz_table[] as generate_c_output writes it.
TableRow(zone) ==
  [zone EXCEPT !.name = Escape(@), !.region = Escape(@), !.city = Escape(@)]

(***************************************************************************)
(* The run of main() as a state machine                                    *)
(***************************************************************************)

VARIABLES
  pc,                 \* where main() is: "main", "parse_rules", "parse_zones",
                      \* "filter", "generate", "exit"; "call" and "return" when
                      \* one parser is run on its own
  argv_len,           \* len(sys.argv)
  is_dir,             \* os.path.isdir(sys.argv[1])
  tzdb,               \* the directory: file name -> the file's lines
  today_year,         \* date.today().year
  line_no,            \* lines the running scan has consumed
  rules,              \* parse_rules: rule-set name -> RuleSet.rules
  zones,              \* parse_zones: the list it builds and returns
  current_zone,       \* parse_zones: the active zone's name, or None
  current_offset,     \* parse_zones: its last-seen offset
  current_rule_name,  \* parse_zones: its last-seen rule reference, or None
  calls,              \* history: the arguments of each create_tz_entry call
  main_zones,         \* main: the filtered list, sorted in place by the emitter
  output,             \* standard output: the table rows and tz_table_count
  exit_status,        \* the process's exit status, -1 while it runs
  arg,                \* a parser run on its own: its argument and how it was built
  ret                 \* a parser run on its own: what it returned

vars ==
  <<pc, argv_len, is_dir, tzdb, today_year, line_no, rules, zones, current_zone,
    current_offset, current_rule_name, calls, main_zones, output, exit_status,
    arg, ret>>

\* Bounds of the checked inputs.
MaxLines == 3

\* The files of TZDB_FILES a checked directory may hold; the others are absent.
TestFiles == {"europe", "northamerica"}

\* The years a run may take place in.
Years == {2006, 2026}

SeqsUpTo(pool, n) == UNION {[1..m -> pool] : m \in 0..n}

\* The order in which both scans read the lines: for filename in TZDB_FILES,
\* skipping the files that do not exist, for line in f.
RECURSIVE ScanFrom(_, _)
ScanFrom(dir, i) ==
  IF i > Len(TZDB_FILES) THEN <<>>
  ELSE (IF TZDB_FILES[i] \in DOMAIN dir THEN dir[TZDB_FILES[i]] ELSE <<>>)
         \o ScanFrom(dir, i + 1)

ScanOrder(dir) == ScanFrom(dir, 1)

NoCall == [fn |-> "", str |-> ""]

\* The state main() starts in, over the directories whose lines come from pool
\* and the years a run may take place in.
InitMain(pool, years) ==
  /\ pc = "main"
  /\ today_year \in years
  /\ \E lines \in SeqsUpTo(pool, MaxLines), k \in 0..MaxLines, absent \in SUBSET TestFiles :
       /\ k <= Len(lines)
       /\ "europe" \in absent => k = 0
       /\ "northamerica" \in absent => k = Len(lines)
       /\ tzdb = [f \in TestFiles \ absent |->
                    IF f = "europe" THEN SubSeq(lines, 1, k)
                    ELSE SubSeq(lines, k + 1, Len(lines))]
  /\ \/ argv_len = 2 /\ is_dir = TRUE
     \/ argv_len = 2 /\ is_dir = FALSE /\ tzdb = <<>>
     \/ argv_len = 1 /\ is_dir = FALSE /\ tzdb = <<>>
  /\ line_no = 0
  /\ rules = <<>>
  /\ zones = <<>>
  /\ current_zone = ""
  /\ current_offset = 0
  /\ current_rule_name = ""
  /\ calls = <<>>
  /\ main_zones = <<>>
  /\ output = [rows |-> <<>>, tz_table_count |-> -1]
  /\ exit_status = -1
  /\ arg = NoCall
  /\ ret = <<>>

Init == InitMain(LinePool, Years)

InitScan == InitMain(ScanPool, {2026})

InitAnomaly == InitMain(AnomalyPool, {2026})

\* main, lines 435-447: the usage and directory checks.
CheckArgs ==
  /\ pc = "main"
  /\ IF argv_len < 2 \/ ~is_dir
     THEN pc' = "exit" /\ exit_status' = 1
     ELSE pc' = "parse_rules" /\ exit_status' = exit_status
  /\ UNCHANGED <<argv_len, is_dir, tzdb, today_year, line_no, rules, zones,
                 current_zone, current_offset, current_rule_name, calls,
                 main_zones, output, arg, ret>>

\* parse_rules: one iteration of the loop over the lines.
ParseRulesLine ==
  /\ pc = "parse_rules"
  /\ line_no < Len(ScanOrder(tzdb))
  /\ LET r == ParseRuleLine(rules, ScanOrder(tzdb)[line_no + 1])
     IN IF r.raised
        THEN pc' = "exit" /\ exit_status' = 1 /\ UNCHANGED <<rules, line_no>>
        ELSE rules' = r.rules /\ line_no' = line_no + 1 /\ UNCHANGED <<pc, exit_status>>
  /\ UNCHANGED <<argv_len, is_dir, tzdb, today_year, zones, current_zone,
                 current_offset, current_rule_name, calls, main_zones, output,
                 arg, ret>>

\* parse_rules returns; parse_zones starts.
ParseRulesReturn ==
  /\ pc = "parse_rules"
  /\ line_no = Len(ScanOrder(tzdb))
  /\ pc' = "parse_zones"
  /\ line_no' = 0
  /\ UNCHANGED <<argv_len, is_dir, tzdb, today_year, rules, zones, current_zone,
                 current_offset, current_rule_name, calls, main_zones, output,
                 exit_status, arg, ret>>

\* parse_zones: one iteration of the loop over the lines.
ParseZonesLine ==
  /\ pc = "parse_zones"
  /\ line_no < Len(ScanOrder(tzdb))
  /\ LET scan == [zones |-> zones, current_zone |-> current_zone,
                  current_offset |-> current_offset,
                  current_rule_name |-> current_rule_name, calls |-> calls,
                  raised |-> FALSE]
         r == ParseZoneLine(scan, ScanOrder(tzdb)[line_no + 1], rules, today_year)
     IN IF r.raised
        THEN /\ pc' = "exit" /\ exit_status' = 1
             /\ UNCHANGED <<line_no, zones, current_zone, current_offset,
                            current_rule_name, calls>>
        ELSE /\ zones' = r.zones
             /\ current_zone' = r.current_zone
             /\ current_offset' = r.current_offset
             /\ current_rule_name' = r.current_rule_name
             /\ calls' = r.calls
             /\ line_no' = line_no + 1
             /\ UNCHANGED <<pc, exit_status>>
  /\ UNCHANGED <<argv_len, is_dir, tzdb, today_year, rules, main_zones, output,
                 arg, ret>>

\* parse_zones, lines 351-357: the last zone is saved and the list returned.
ParseZonesReturn ==
  /\ pc = "parse_zones"
  /\ line_no = Len(ScanOrder(tzdb))
  /\ IF current_zone # ""
     THEN /\ zones' = Append(zones, create_tz_entry(current_zone, current_offset,
                                      current_rule_name, rules, today_year))
          /\ calls' = Append(calls, [zone_name |-> current_zone,
                                     std_offset |-> current_offset,
                                     rule_name |-> current_rule_name])
     ELSE UNCHANGED <<zones, calls>>
  /\ pc' = "filter"
  /\ UNCHANGED <<argv_len, is_dir, tzdb, today_year, line_no, rules, current_zone,
                 current_offset, current_rule_name, main_zones, output,
                 exit_status, arg, ret>>

\* main, line 460: the filter builds a new list.
FilterZones ==
  /\ pc = "filter"
  /\ main_zones' = SelectSeq(zones, KeepZone)
  /\ pc' = "generate"
  /\ UNCHANGED <<argv_len, is_dir, tzdb, today_year, line_no, rules, zones,
                 current_zone, current_offset, current_rule_name, calls, output,
                 exit_status, arg, ret>>

\* generate_c_output and the print of its result; main returns.
GenerateCOutput ==
  /\ pc = "generate"
  /\ main_zones' = SortByName(main_zones)
  /\ output' = [rows |-> [k \in 1..Len(main_zones) |-> TableRow(main_zones'[k])],
                tz_table_count |-> Len(main_zones')]
  /\ pc' = "exit"
  /\ exit_status' = 0
  /\ UNCHANGED <<argv_len, is_dir, tzdb, today_year, line_no, rules, zones,
                 current_zone, current_offset, current_rule_name, calls, arg, ret>>

Next ==
  \/ CheckArgs
  \/ ParseRulesLine
  \/ ParseRulesReturn
  \/ ParseZonesLine
  \/ ParseZonesReturn
  \/ FilterZones
  \/ GenerateCOutput

Spec == Init /\ [][Next]_vars

SpecScan == InitScan /\ [][Next]_vars

SpecAnomaly == InitAnomaly /\ [][Next]_vars

(***************************************************************************)
(* One parser run on its own, on arguments built from their parts          *)
(***************************************************************************)

\* Bounds of the checked arguments.
MaxHours == 12

MaxDayNum == 31

OffsetMinutes == {0, 16, 30, 52}

OffsetSeconds == {0, 8, 29, 30, 58}

\* The text after "last" or before ">=": the day names and two others.
OnWords == {DayNames[i] : i \in 1..7} \cup {"Sol", "sun"}

\* What may follow the digits of a DOW>=N token.
OnTails == {"", "x"}

\* Tokens of none of the three forms.
OtherTokens == {"Fri<=1", "Sun", "Sun>=", ">=8", "Sun>8", "Sun=>8", "1st", "8-", "lst"}

\* str(n) for n >= 0.
RECURSIVE Str(_)
Str(n) ==
  IF n < 10 THEN Char("0123456789", n + 1)
  ELSE Str(n \div 10) \o Char("0123456789", (n % 10) + 1)

TwoDigits(n) == IF n < 10 THEN "0" \o Str(n) ELSE Str(n)

\* The offset text H, H:MM or H:MM:SS, with its sign.
OffsetText(negative, hours, minutes, seconds, nparts) ==
  (IF negative THEN "-" ELSE "")
    \o Str(hours)
    \o (IF nparts >= 2 THEN ":" \o TwoDigits(minutes) ELSE "")
    \o (IF nparts >= 3 THEN ":" \o TwoDigits(seconds) ELSE "")

\* The pipeline's variables while a parser is run on its own.
NoRun ==
  /\ argv_len = 1
  /\ is_dir = FALSE
  /\ tzdb = <<>>
  /\ today_year = 2026
  /\ line_no = 0
  /\ rules = <<>>
  /\ zones = <<>>
  /\ current_zone = ""
  /\ current_offset = 0
  /\ current_rule_name = ""
  /\ calls = <<>>
  /\ main_zones = <<>>
  /\ output = [rows |-> <<>>, tz_table_count |-> -1]
  /\ exit_status = -1

InitOffset ==
  /\ pc = "call"
  /\ \E negative \in BOOLEAN, hours \in 0..MaxHours, minutes \in OffsetMinutes,
        seconds \in OffsetSeconds, nparts \in 1..3 :
       /\ nparts < 2 => minutes = 0
       /\ nparts < 3 => seconds = 0
       /\ arg = [fn |-> "parse_offset",
                 str |-> OffsetText(negative, hours, minutes, seconds, nparts),
                 negative |-> negative, hours |-> hours, minutes |-> minutes,
                 seconds |-> seconds, nparts |-> nparts]
  /\ ret = <<>>
  /\ NoRun

CallParseOffset ==
  /\ pc = "call"
  /\ arg.fn = "parse_offset"
  /\ ret' = parse_offset(arg.str)
  /\ pc' = "return"
  /\ UNCHANGED <<argv_len, is_dir, tzdb, today_year, line_no, rules, zones,
                 current_zone, current_offset, current_rule_name, calls,
                 main_zones, output, exit_status, arg>>

NextOffset == CallParseOffset

SpecOffset == InitOffset /\ [][NextOffset]_vars

InitOn ==
  /\ pc = "call"
  /\ \E form \in {"last", "ge", "int", "other"}, word \in OnWords \cup {""},
        n \in 0..MaxDayNum, sign \in {"", "-", "+"}, tail \in OnTails,
        other \in OtherTokens \cup {""} :
       /\ form \in {"int", "other"} => word = ""
       /\ form = "ge" => word # ""
       /\ form \in {"last", "other"} => n = 0
       /\ form # "int" => sign = ""
       /\ form # "ge" => tail = ""
       /\ (form = "other") = (other # "")
       /\ arg = [fn |-> "parse_on_field",
                 str |-> CASE form = "last" -> "last" \o word
                           [] form = "ge" -> word \o ">=" \o Str(n) \o tail
                           [] form = "int" -> sign \o Str(n)
                           [] OTHER -> other,
                 form |-> form, word |-> word, n |-> n, sign |-> sign, tail |-> tail]
  /\ ret = <<>>
  /\ NoRun

CallParseOnField ==
  /\ pc = "call"
  /\ arg.fn = "parse_on_field"
  /\ ret' = parse_on_field(arg.str)
  /\ pc' = "return"
  /\ UNCHANGED <<argv_len, is_dir, tzdb, today_year, line_no, rules, zones,
                 current_zone, current_offset, current_rule_name, calls,
                 main_zones, output, exit_status, arg>>

NextOn == CallParseOnField

SpecOn == InitOn /\ [][NextOn]_vars

\* The longest RuleSet.rules list the selector is run on.
MaxRules == 3

\* The (from_year, to_year, rule) tuples a checked RuleSet.rules is made of:
\* a positive, a zero and a negative SAVE in force from 2007 on, a positive
\* one that ended in 2006, a zero one that starts in 2030 and a positive one
\* of 2026 only.
RulePool ==
  { <<2007, 9999, DSTRule(3, 2, 0, 2, 60)>>,
    <<2007, 9999, DSTRule(11, 1, 0, 2, 0)>>,
    <<2007, 9999, DSTRule(10, 5, 0, 2, -60)>>,
    <<1900, 2006, DSTRule(4, 1, 0, 2, 60)>>,
    <<2030, 9999, DSTRule(9, 5, 0, 2, 0)>>,
    <<2026, 2026, DSTRule(5, 1, 0, 2, 30)>> }

InitSelect ==
  /\ pc = "call"
  /\ \E ruleset \in SeqsUpTo(RulePool, MaxRules), year \in Years :
       arg = [fn |-> "get_current_rules", ruleset |-> ruleset, current_year |-> year]
  /\ ret = <<>>
  /\ NoRun

\* get_current_rules(ruleset) called on its own: what it returns, and
\* ruleset.rules after the call (the loop of lines 281-288 only reads it).
CallGetCurrentRules ==
  /\ pc = "call"
  /\ arg.fn = "get_current_rules"
  /\ ret' = [start_rule |-> get_current_rules(arg.ruleset, arg.current_year)[1],
             end_rule   |-> get_current_rules(arg.ruleset, arg.current_year)[2],
             rules      |-> arg.ruleset]
  /\ pc' = "return"
  /\ UNCHANGED <<argv_len, is_dir, tzdb, today_year, line_no, rules, zones,
                 current_zone, current_offset, current_rule_name, calls,
                 main_zones, output, exit_status, arg>>

NextSelect == CallGetCurrentRules

SpecSelect == InitSelect /\ [][NextSelect]_vars

(***************************************************************************)
(* Properties                                                              *)
(***************************************************************************)

Returned(fn) == pc = "return" /\ arg.fn = fn

\* The minutes of an offset built from its parts: the sign applies to the
\* whole magnitude, and 30 seconds or more count as one more minute.
SignedMinutes(a) ==
  (IF a.negative THEN -1 ELSE 1)
    * (a.hours * 60 + a.minutes + (IF a.seconds >= 30 THEN 1 ELSE 0))

WeekOf(n) == ((n - 1) \div 7) + 1

IsDayName(w) == \E i \in 1..7 : DayNames[i] = w

\* The dow of a day name, 0 for any other text.
DowOf(w) == IF IsDayName(w) THEN (CHOOSE i \in 1..7 : DayNames[i] = w) - 1 ELSE 0

Emitted == pc = "exit" /\ exit_status = 0

\* The DST descriptor fields of an entry.
DescriptorFields ==
  {"dst_start_month", "dst_start_week", "dst_start_dow", "dst_start_hour",
   "dst_end_month", "dst_end_week", "dst_end_dow", "dst_end_hour"}

\* The entries create_tz_entry has produced so far, and those emitted.
Produced == {zones[i] : i \in 1..Len(zones)} \cup {output.rows[i] : i \in 1..Len(output.rows)}

\* What the selector returns for the i-th create_tz_entry call.
Selected(i) ==
  IF calls[i].rule_name # "" /\ calls[i].rule_name \in DOMAIN rules
  THEN get_current_rules(rules[calls[i].rule_name], today_year)
  ELSE <<<<>>, <<>>>>

\* C1 as stated: in the emitted table every name appears at most once, and
\* the record of a name is the entry of the last-scanned Zone block of that
\* name.
C1_UniqueNames ==
  Emitted =>
    /\ \A i, j \in 1..Len(output.rows) :
         output.rows[i].name = output.rows[j].name => i = j
    /\ \A i \in 1..Len(output.rows) : \A j \in 1..Len(zones) :
         (zones[j].name = output.rows[i].name
            /\ \A k \in (j + 1)..Len(zones) : zones[k].name # zones[j].name)
           => output.rows[i] = TableRow(zones[j])

\* C2: every entry create_tz_entry produces with dst_offset_mins = 0 has its
\* eight DST descriptor fields (month, week, dow and hour of start and of
\* end) equal to 0.
C2_NoDstAllZero ==
  \A e \in Produced :
    e.dst_offset_mins = 0 => \A f \in DescriptorFields : e[f] = 0

\* An entry without DST whose rule reference is registered and for which the
\* selector found an end rule but no start rule.
C2_Witness ==
  \E i \in 1..Len(zones) :
    /\ zones[i].dst_offset_mins = 0
    /\ calls[i].rule_name \in DOMAIN rules
    /\ Selected(i)[1] = <<>>
    /\ Selected(i)[2] # <<>>
    /\ Selected(i)[2][1].month = 11

HasSlash(name) == \E i \in 1..Len(name) : Char(name, i) = "/"

IsEtc(name) == Len(name) >= 4 /\ SubSeq(name, 1, 4) = "Etc/"

\* How many times v occurs in the sequence q.
Count(q, v) == Cardinality({i \in 1..Len(q) : q[i] = v})

\* C3: the emitted table holds exactly the finalized entries whose name has a
\* '/' and does not start with "Etc/", each as often as it was finalized, in
\* non-decreasing order of name whatever the scan order, and tz_table_count
\* is the number of records.
C3_FilteredSorted ==
  Emitted =>
    /\ \A i \in 1..Len(output.rows) :
         HasSlash(output.rows[i].name) /\ ~IsEtc(output.rows[i].name)
    /\ \A i \in 1..Len(zones) :
         (HasSlash(zones[i].name) /\ ~IsEtc(zones[i].name)) =>
           Count(output.rows, TableRow(zones[i])) = Count(zones, zones[i])
    /\ \A i \in 1..Len(output.rows) : \E j \in 1..Len(zones) :
         output.rows[i] = TableRow(zones[j])
    /\ \A i, j \in 1..Len(output.rows) :
         i < j => ~StrLess(output.rows[j].name, output.rows[i].name)
    /\ output.tz_table_count = Len(output.rows)

\* Three zones scanned in an order that is not the order of their names, one
\* of them under Etc/: two records are emitted, sorted.
C3_Witness ==
  /\ Emitted
  /\ Len(zones) = 3
  /\ [i \in 1..3 |-> zones[i].name] = <<"America/Denver", "Etc/UTC", "Africa/Lagos">>
  /\ [i \in 1..Len(output.rows) |-> output.rows[i].name] = <<"Africa/Lagos", "America/Denver">>
  /\ output.tz_table_count = 2

\* The DST fields of an entry, the saving with the eight descriptor fields.
DstFields(e) ==
  <<e.dst_offset_mins, e.dst_start_month, e.dst_start_week, e.dst_start_dow,
    e.dst_start_hour, e.dst_end_month, e.dst_end_week, e.dst_end_dow, e.dst_end_hour>>

\* The i-th call's rule reference names a registered rule set for which the
\* selector returns a start rule and an end rule.
BothRules(i) == Selected(i)[1] # <<>> /\ Selected(i)[2] # <<>>

\* C8: the entry of a zone has DST fields only when its rule reference names a
\* registered rule set and the selector returns a start and an end rule for
\* the year of the run, and then they are the fields of those two rules; when
\* the reference is '-', names no registered set, or one of the two rules is
\* missing, every DST field is zero; the run raises no error.
C8_BothOrNothing ==
  /\ Len(calls) = Len(zones)
  /\ \A i \in 1..Len(zones) :
       IF BothRules(i)
       THEN DstFields(zones[i]) =
              <<Selected(i)[1][1].offset_mins, Selected(i)[1][1].month,
                Selected(i)[1][1].week, Selected(i)[1][1].dow, Selected(i)[1][1].hour,
                Selected(i)[2][1].month, Selected(i)[2][1].week,
                Selected(i)[2][1].dow, Selected(i)[2][1].hour>>
       ELSE DstFields(zones[i]) = <<0, 0, 0, 0, 0, 0, 0, 0, 0>>
  /\ (pc = "exit" /\ argv_len >= 2 /\ is_dir) => exit_status = 0

\* A zone whose registered rule set has a start rule for the year and no end
\* rule: its entry is emitted with every DST field zero.
C8_Witness ==
  /\ Emitted
  /\ \E i \in 1..Len(zones) :
       /\ calls[i].rule_name \in DOMAIN rules
       /\ Selected(i)[1] # <<>>
       /\ Selected(i)[2] = <<>>
       /\ DstFields(zones[i]) = <<0, 0, 0, 0, 0, 0, 0, 0, 0>>
       /\ \E k \in 1..Len(output.rows) : output.rows[k] = zones[i]

\* The input of the end-to-end scenario: the two rule lines and the zone line
\* and nothing else, in any order and in either file.
DenverInput ==
  /\ Len(ScanOrder(tzdb)) = 3
  /\ {ScanOrder(tzdb)[i] : i \in 1..3} =
       {"Rule US 2007 max - Mar Sun>=8 2:00 1:00 D",
        "Rule US 2007 max - Nov Sun>=1 2:00 0 S",
        "Zone America/Denver -7:00 US M%sT"}

DenverRow ==
  [name |-> "America/Denver", region |-> "America", city |-> "Denver",
   std_offset_mins |-> -420, dst_offset_mins |-> 60,
   dst_start_month |-> 3, dst_start_week |-> 2, dst_start_dow |-> 0,
   dst_start_hour |-> 2, dst_end_month |-> 11, dst_end_week |-> 1,
   dst_end_dow |-> 0, dst_end_hour |-> 2]

\* C9: on the two US rule lines and the America/Denver zone line alone, in a
\* year from 2007 on, the run succeeds and emits exactly one record: name
\* America/Denver, region America, city Denver, std_offset -420, dst_offset
\* 60, start (3, 2, 0, 2), end (11, 1, 0, 2).
C9_Denver ==
  (pc = "exit" /\ argv_len >= 2 /\ is_dir /\ DenverInput /\ today_year >= 2007) =>
    /\ exit_status = 0
    /\ output.rows = <<DenverRow>>
    /\ output.tz_table_count = 1

C9_Witness ==
  /\ Emitted
  /\ DenverInput
  /\ today_year = 2026
  /\ ScanOrder(tzdb)[1] = "Zone America/Denver -7:00 US M%sT"
  /\ output.rows = <<DenverRow>>

\* The lines of the directory in the order both scans read them.
Input == ScanOrder(tzdb)

ZoneKind(i) == ZoneLineTable[Input[i]].kind

\* Line i begins with "Zone".
BeginsZone(i) == ZoneKind(i) \in {"zone", "short_zone"}

\* A zone is active when line i is read: the last line before it that begins
\* with "Zone" has at least three fields.
ActiveAt(i) ==
  \E j \in 1..(i - 1) :
    ZoneKind(j) = "zone" /\ \A k \in (j + 1)..(i - 1) : ~BeginsZone(k)

\* Some line hands int() a text that is no integer: the FROM or TO year, the
\* AT or the SAVE field of a Rule line of at least ten fields, the offset of a
\* Zone line of at least three fields, or the offset of an indented line of at
\* least two fields read while a zone is active.
BadNumber ==
  \/ \E i \in 1..Len(Input) : RuleLineTable[Input[i]].raised
  \/ \E i \in 1..Len(Input) :
       /\ ZoneLineTable[Input[i]].offset.raised
       /\ ZoneKind(i) = "zone" \/ (ZoneKind(i) = "indented" /\ ActiveAt(i))

C6_DescriptorRanges ==
  \A e \in Produced :
    IF e.dst_offset_mins = 0
    THEN \A f \in DescriptorFields : e[f] = 0
    ELSE /\ e.dst_start_week \in 1..5 /\ e.dst_end_week \in 1..5
         /\ e.dst_start_dow \in 0..6 /\ e.dst_end_dow \in 0..6
         /\ e.dst_start_month \in 1..12 /\ e.dst_end_month \in 1..12

\* The lines the zone scan has read so far, all of them once it has returned.
ZonesRead ==
  CASE pc \in {"main", "parse_rules"} -> 0
    [] pc = "parse_zones" -> line_no
    [] pc = "exit" /\ exit_status # 0 -> 0
    [] OTHER -> Len(Input)

\* The zone scan has reached the end of the input.
ZonesDone == pc \in {"filter", "generate"} \/ Emitted

\* The well-formed Zone lines whose zone has been finalized: those followed,
\* among the lines read, by a line beginning with "Zone", and every one of
\* them at the end of the input.
Finalized ==
  {i \in 1..ZonesRead :
     /\ ZoneKind(i) = "zone"
     /\ ZonesDone \/ \E j \in (i + 1)..ZonesRead : BeginsZone(j)}

\* The lines of the block the Zone line i opens: up to the line before the
\* next line beginning with "Zone", or to the last line.
Block(i) == {k \in i..Len(Input) : \A j \in (i + 1)..k : ~BeginsZone(j)}

\* The last line of the block of i: the Zone line itself or the last indented
\* line of at least two fields.
LastLine(i) ==
  CHOOSE k \in Block(i) :
    /\ k = i \/ ZoneKind(k) = "indented"
    /\ \A m \in Block(i) : (m = i \/ ZoneKind(m) = "indented") => m <= k

\* What the scan hands to the assembler for the zone of line i.
ExpectedCall(i) ==
  [zone_name  |-> ZoneLineTable[Input[i]].name,
   std_offset |-> ZoneLineTable[Input[LastLine(i)]].offset.value,
   rule_name  |-> ZoneLineTable[Input[LastLine(i)]].rule_name]

\* The position of line i among the finalized Zone lines.
Rank(i) == Cardinality({j \in Finalized : j <= i})

\* C10: the zone scan, one state carried over the files, finalizes each
\* active zone exactly once, at the next line beginning with "Zone" or at the
\* end of the input: the list holds one entry per well-formed Zone line, in
\* scan order, with the offset and rule reference of the last line of its
\* block (the Zone line or the last indented line of at least two fields);
\* Link, Rule, blank and comment lines neither finalize nor change the zone.
C10_OnePerZoneLine ==
  /\ Len(calls) = Cardinality(Finalized)
  /\ Len(zones) = Len(calls)
  /\ \A i \in Finalized :
       /\ calls[Rank(i)] = ExpectedCall(i)
       /\ zones[Rank(i)].name = ZoneLineTable[Input[i]].name
       /\ zones[Rank(i)].std_offset_mins = ExpectedCall(i).std_offset

\* Two blocks: the first is finalized by the second Zone line with the values
\* of its continuation line, the second at the end of the input.
C10_Witness ==
  /\ Emitted
  /\ Input = <<"Zone Africa/Lagos 0:13:35 - LMT 1905 Jul", "\t\t\t1:00\t-\tWAT",
               "Zone America/Denver -7:00 US M%sT">>
  /\ calls = <<[zone_name |-> "Africa/Lagos", std_offset |-> 60, rule_name |-> ""],
               [zone_name |-> "America/Denver", std_offset |-> -420, rule_name |-> "US"]>>

\* The rules of the list in force in year y: from_year <= y <= to_year.
InForce(ruleset, y) == {i \in 1..Len(ruleset) : ruleset[i][1] <= y /\ y <= ruleset[i][2]}

\* The last rule of the list among those at the positions in picked, or None.
LastOf(ruleset, picked) ==
  IF picked = {} THEN <<>>
  ELSE <<ruleset[CHOOSE i \in picked : \A j \in picked : j <= i][3]>>

\* C11 as stated: get_current_rules looks only at the rules in force in the
\* year of the run; the start rule is the last of them whose save is
\* positive, the end rule the last of them whose save is zero, each None when
\* there is no such rule; the rule list is left as it was.
C11_Selector ==
  Returned("get_current_rules") =>
    /\ ret.start_rule =
         LastOf(arg.ruleset, {i \in InForce(arg.ruleset, arg.current_year) :
                                arg.ruleset[i][3].offset_mins > 0})
    /\ ret.end_rule =
         LastOf(arg.ruleset, {i \in InForce(arg.ruleset, arg.current_year) :
                                arg.ruleset[i][3].offset_mins = 0})
    /\ ret.rules = arg.ruleset

====
